---- MODULE Spec2Model ----
(***************************************************************************)
(* Madrid Rock Radio backend (src/backend/server.py): the shared playback  *)
(* clock, the rotate-to-tail playlist, the bounded history, the single     *)
(* favorite, the Telegram ingestion poller and the history rescan.         *)
(*                                                                         *)
(* Every coroutine runs on one asyncio event loop.  A step of the model is *)
(* the code a coroutine runs between two real suspension points (network   *)
(* awaits, asyncio.sleep).  `await play_next_track()` and                  *)
(* `await reload_playlist()` contain no such point and run inline.         *)
(* TELEGRAM_BOT_TOKEN is set: without it the scan and the poller return at *)
(* once and the radio never leaves its initial state.                      *)
(***************************************************************************)
EXTENDS Integers, Sequences, FiniteSets, TLC

\* ------------------------------------------------------------------ bounds
\* Spec: the whole service, every input small.
MaxFiles == 2        \* distinct Telegram file_ids
MaxTracks == 3       \* Track objects constructed (uuid4 ids handed out)
MaxDuration == 2     \* durations reported by Telegram: 0 and MaxDuration
MaxTime == 3         \* wall clock runs 0..MaxTime
MaxPlays == 2        \* tracks moved to history in one run
MaxUpdates == 1      \* updates returned by one getUpdates call
MaxSaves == 2        \* successful saves of a favorite in one run
\* SpecHistory: long runs of advances, past the capacity of the history.
MaxFilesLong == 2
MaxPlaysLong == 52
MaxIngestPlays == 1  \* ingestion happens while at most this many were played
\* SpecScenario: three files, short runs.
MaxFilesScenario == 3
MaxPlaysScenario == 3
\* SpecLookahead: playlists longer than the lookahead.
MaxFilesLookahead == 4
MaxPlaysLookahead == 1
\* SpecPoller: the poller under fairness, several updates in one poll.
MaxUpdatesPoller == 2
MaxPlaysPoller == 1

\* ------------------------------------------------------- program constants
HistoryCapacity == 50
UpNextCount == 3

\* What bounds one specification: the file_ids and durations Telegram may
\* report, the Track objects constructed, the tracks moved to history, how
\* many of them may have been moved when an ingestion happens, and the updates
\* one getUpdates call returns.
Bounds == [files |-> 1..MaxFiles, durs |-> {0, MaxDuration},
           tracks |-> MaxTracks, plays |-> MaxPlays, ingest |-> MaxPlays,
           updates |-> MaxUpdates]

FavoritesBounds == [files |-> 1..MaxFiles, durs |-> {MaxDuration},
                    tracks |-> MaxTracks, plays |-> MaxPlays,
                    ingest |-> MaxPlays, updates |-> MaxUpdates]

HistoryBounds == [files |-> 1..MaxFilesLong, durs |-> {0, MaxDuration},
                  tracks |-> MaxFilesLong, plays |-> MaxPlaysLong,
                  ingest |-> MaxIngestPlays, updates |-> MaxUpdates]

ScenarioBounds == [files |-> 1..MaxFilesScenario, durs |-> {0, MaxDuration},
                   tracks |-> MaxFilesScenario, plays |-> MaxPlaysScenario,
                   ingest |-> MaxIngestPlays, updates |-> MaxUpdates]

LookaheadBounds == [files |-> 1..MaxFilesLookahead,
                    durs |-> {0, MaxDuration},
                    tracks |-> MaxFilesLookahead,
                    plays |-> MaxPlaysLookahead,
                    ingest |-> 0, updates |-> MaxUpdates]

PollerBounds == [files |-> 1..MaxFiles, durs |-> {MaxDuration},
                 tracks |-> MaxTracks, plays |-> MaxPlaysPoller,
                 ingest |-> MaxPlaysPoller, updates |-> MaxUpdatesPoller]

VARIABLES
    SONGS_DB,        \* file_id -> Track
    radio_state,     \* the RadioState record
    user_favorites,  \* "main" -> UserFavorite
    now,             \* time.time()
    next_uuid,       \* the next fresh Track.id
    booted,          \* the startup event has completed
    scan_pc,         \* scan_telegram_history: "idle" | "getUpdates"
    poll_pc,         \* telegram_polling_loop: where the poller is suspended
    poll_updates,    \* updates of the current poll not yet looked at
    resp,            \* response of the request served by the step just taken
    nexts,           \* play_next_track calls made by that request
    played,          \* every track that was moved to history, in order
    saved,           \* the tracks of the successful save_favorite calls
    poll_failed,     \* the poll that ended last logged an error
    poll_file        \* process_telegram_updates: file_id of the track it has
                     \* stored and not yet reloaded the playlist for, or 0

vars == <<SONGS_DB, radio_state, user_favorites, now, next_uuid, booted,
          scan_pc, poll_pc, poll_updates, resp, nexts, played, saved,
          poll_failed, poll_file>>

\* ------------------------------------------------------------------ models
\* None, for an Optional[Track].
NoTrack == [id |-> 0, file_id |-> 0, duration |-> 0]

Track(i, f, d) == [id |-> i, file_id |-> f, duration |-> d]

RadioState ==
    [current_track |-> NoTrack, position |-> 0, is_playing |-> TRUE,
     started_at |-> 0, playlist |-> <<>>, history |-> <<>>]

UserFavorite(track, t) == [track |-> track, saved_at |-> t]

\* ----------------------------------------------------------------- helpers
Min(a, b) == IF a < b THEN a ELSE b

\* s[-n:]
LastN(s, n) == SubSeq(s, Len(s) - n + 1, Len(s))

\* s[:n]
FirstN(s, n) == SubSeq(s, 1, n)

Range(f) == {f[x] : x \in DOMAIN f}

\* Every order random.shuffle can leave list(SONGS_DB.values()) in.
Shuffles(db) ==
    LET n == Cardinality(DOMAIN db)
    IN  {s \in [1..n -> Range(db)] : \A i, j \in 1..n : s[i] = s[j] => i = j}

\* No response: the step just taken served no request.
NoResp ==
    [op |-> "none", status |-> 0, current_track |-> NoTrack, position |-> 0,
     is_playing |-> FALSE, started_at |-> 0, playlist_count |-> 0,
     just_played |-> NoTrack, up_next |-> <<>>, favorite |-> NoTrack,
     playlist |-> <<>>]

\* ------------------------------------------------------------- radio logic
\* Mutant of HistoryPush: the overflow is cut from the wrong end (h[:50]).
HistoryPush_KeepOldest(history, track) ==
    LET h == Append(history, track)
    IN  IF Len(h) > HistoryCapacity THEN FirstN(h, HistoryCapacity) ELSE h

\* Mutant of HistoryPush: the track is inserted at the front of history.
HistoryPush_Front(history, track) ==
    LET h == <<track>> \o history
    IN  IF Len(h) > HistoryCapacity THEN FirstN(h, HistoryCapacity) ELSE h

\* history after the current track was saved to it
HistoryPush(history, track) ==
    LET h == Append(history, track)
    IN  IF Len(h) > HistoryCapacity THEN LastN(h, HistoryCapacity) ELSE h

\* Mutant of play_next_track: the track popped is not appended again.
play_next_track_NoRequeue(rs, t) ==
    IF rs.playlist = <<>>
    THEN rs
    ELSE LET h == IF rs.current_track # NoTrack
                  THEN HistoryPush(rs.history, rs.current_track)
                  ELSE rs.history
         IN  [rs EXCEPT !.history = h,
                        !.current_track = Head(rs.playlist),
                        !.position = 0,
                        !.started_at = t,
                        !.playlist = Tail(rs.playlist)]

\* Mutant of play_next_track: the clock is restarted before the playlist is
\* looked at.
play_next_track_ClockFirst(rs, t) ==
    IF rs.playlist = <<>>
    THEN [rs EXCEPT !.position = 0, !.started_at = t]
    ELSE LET h == IF rs.current_track # NoTrack
                  THEN HistoryPush(rs.history, rs.current_track)
                  ELSE rs.history
             nxt == Head(rs.playlist)
         IN  [rs EXCEPT !.history = h,
                        !.current_track = nxt,
                        !.position = 0,
                        !.started_at = t,
                        !.playlist = Append(Tail(rs.playlist), nxt)]

\* Mutant of play_next_track: the next track is read from the head
\* (playlist[0]) without being popped, and appended.
play_next_track_NoPop(rs, t) ==
    IF rs.playlist = <<>>
    THEN rs
    ELSE LET h == IF rs.current_track # NoTrack
                  THEN HistoryPush(rs.history, rs.current_track)
                  ELSE rs.history
             nxt == Head(rs.playlist)
         IN  [rs EXCEPT !.history = h,
                        !.current_track = nxt,
                        !.position = 0,
                        !.started_at = t,
                        !.playlist = Append(rs.playlist, nxt)]

\* play_next_track() at time t
play_next_track(rs, t) ==
    IF rs.playlist = <<>>
    THEN rs
    ELSE LET h == IF rs.current_track # NoTrack
                  THEN HistoryPush(rs.history, rs.current_track)
                  ELSE rs.history
             nxt == Head(rs.playlist)
         IN  [rs EXCEPT !.history = h,
                        !.current_track = nxt,
                        !.position = 0,
                        !.started_at = t,
                        !.playlist = Append(Tail(rs.playlist), nxt)]

\* Mutant of reload_playlist: an empty reload stops the radio.
reload_playlist_StopOnEmpty(rs, tracks, t) ==
    LET rs1 == [rs EXCEPT !.playlist = tracks]
    IN  IF tracks = <<>>
        THEN [rs1 EXCEPT !.current_track = NoTrack]
        ELSE IF rs.current_track = NoTrack
             THEN play_next_track(rs1, t)
             ELSE rs1

\* reload_playlist() at time t, tracks being the shuffled list
reload_playlist(rs, tracks, t) ==
    LET rs1 == [rs EXCEPT !.playlist = tracks]
    IN  IF rs.current_track = NoTrack /\ tracks # <<>>
        THEN play_next_track(rs1, t)
        ELSE rs1

\* The log of tracks moved to history, after a play_next_track() on rs.
PlayedAfter(rs, log) ==
    IF rs.playlist # <<>> /\ rs.current_track # NoTrack
    THEN Append(log, rs.current_track)
    ELSE log

Init ==
    /\ SONGS_DB = <<>>
    /\ radio_state = RadioState
    /\ user_favorites = <<>>
    /\ now = 0
    /\ next_uuid = 1
    /\ booted = FALSE
    /\ scan_pc = "idle"
    /\ poll_pc = "sleep"
    /\ poll_updates = <<>>
    /\ resp = NoResp
    /\ nexts = 0
    /\ played = <<>>
    /\ saved = <<>>
    /\ poll_failed = FALSE
    /\ poll_file = 0

\* The wall clock advances.
Tick ==
    /\ now < MaxTime
    /\ now' = now + 1
    /\ resp' = NoResp
    /\ nexts' = 0
    /\ UNCHANGED <<SONGS_DB, radio_state, user_favorites, next_uuid, booted,
                   scan_pc, poll_pc, poll_updates, played, saved,
                   poll_failed, poll_file>>

\* ------------------------------------------------- scan_telegram_history
\* SONGS_DB[file_id] = track
DbPut(db, f, track) ==
    [g \in (DOMAIN db) \cup {f} |-> IF g = f THEN track ELSE db[g]]

\* all_songs_found: one Track per file_id of S, durations dur, ids from base
FoundSongs(S, dur, base) ==
    [f \in S |-> Track(base + Cardinality({g \in S : g < f}), f, dur[f])]

\* The history scan starts and is suspended in client.get.
scan_telegram_history_start ==
    /\ scan_pc' = "getUpdates"
    /\ resp' = NoResp
    /\ nexts' = 0
    /\ UNCHANGED <<SONGS_DB, radio_state, user_favorites, now, next_uuid,
                   booted, poll_pc, poll_updates, played, saved, poll_failed,
                   poll_file>>

\* The startup event: initialize_radio scans the history; requests are served
\* and the poller is started once it has returned.
startup ==
    /\ ~booted
    /\ scan_pc = "idle"
    /\ scan_telegram_history_start

\* POST /api/admin/rescan
manual_rescan ==
    /\ booted
    /\ scan_pc = "idle"
    /\ scan_telegram_history_start

\* getUpdates raised or answered not ok: the scan returns, nothing is replaced.
scan_telegram_history_fail ==
    /\ scan_pc = "getUpdates"
    /\ scan_pc' = "idle"
    /\ booted' = TRUE
    /\ resp' = NoResp
    /\ nexts' = 0
    /\ UNCHANGED <<SONGS_DB, radio_state, user_favorites, now, next_uuid,
                   poll_pc, poll_updates, played, saved, poll_failed,
                   poll_file>>

\* getUpdates answered: SONGS_DB is replaced by what was found and, when that
\* is not empty, the playlist is reloaded.
scan_telegram_history_done(B) ==
    /\ scan_pc = "getUpdates"
    /\ Len(played) <= B.ingest
    /\ \E S \in SUBSET B.files :
         /\ next_uuid + Cardinality(S) <= B.tracks + 1
         /\ \E dur \in [S -> B.durs] :
              LET found == FoundSongs(S, dur, next_uuid)
              IN  /\ SONGS_DB' = found
                  /\ next_uuid' = next_uuid + Cardinality(S)
                  /\ \E tracks \in Shuffles(found) :
                       radio_state' =
                           IF S # {}
                           THEN reload_playlist(radio_state, tracks, now)
                           ELSE radio_state
    /\ scan_pc' = "idle"
    /\ booted' = TRUE
    /\ resp' = NoResp
    /\ nexts' = 0
    /\ UNCHANGED <<user_favorites, now, poll_pc, poll_updates, played,
                   saved, poll_failed, poll_file>>

\* ---------------------------------------------------- the ingestion poller
Updates(B) ==
    {[kind |-> "audio", file_id |-> f, duration |-> d] :
        f \in B.files, d \in B.durs}
    \cup {[kind |-> k, file_id |-> 0, duration |-> 0] :
            k \in {"list", "clear", "bad"}}

UpdateLists(B) == UNION {[1..n -> Updates(B)] : n \in 0..B.updates}

AudioCount(us) == Cardinality({i \in DOMAIN us : us[i].kind = "audio"})

\* The for loop of process_telegram_updates, from the updates us up to the
\* next send_telegram_message: what it leaves in SONGS_DB, the next fresh id,
\* where it is suspended, the updates left and whether it raised.  A "bad"
\* update (no update_id, an audio without file_id) raises before it has any
\* effect: the except clause logs it and the updates left are dropped.
process_update(us, db, uuid) ==
    IF us = <<>>
    THEN [db |-> db, uuid |-> uuid, pc |-> "sleep", rest |-> <<>>,
          failed |-> FALSE, file_id |-> 0]
    ELSE LET u == Head(us)
         IN  CASE u.kind = "audio" ->
                    [db |-> DbPut(db, u.file_id,
                                  Track(uuid, u.file_id, u.duration)),
                     uuid |-> uuid + 1, pc |-> "send_added",
                     rest |-> Tail(us), failed |-> FALSE,
                     file_id |-> u.file_id]
               [] u.kind = "clear" ->
                    [db |-> <<>>, uuid |-> uuid, pc |-> "send_cleared",
                     rest |-> Tail(us), failed |-> FALSE, file_id |-> 0]
               [] u.kind = "bad" ->
                    [db |-> db, uuid |-> uuid, pc |-> "sleep", rest |-> <<>>,
                     failed |-> TRUE, file_id |-> 0]
               [] OTHER ->
                    [db |-> db, uuid |-> uuid, pc |-> "send_list",
                     rest |-> Tail(us), failed |-> FALSE, file_id |-> 0]

\* telegram_polling_loop: the sleep is over, process_telegram_updates starts
\* and is suspended in client.get.
telegram_polling_loop ==
    /\ booted
    /\ poll_pc = "sleep"
    /\ poll_pc' = "getUpdates"
    /\ poll_failed' = FALSE
    /\ resp' = NoResp
    /\ nexts' = 0
    /\ UNCHANGED <<SONGS_DB, radio_state, user_favorites, now, next_uuid,
                   booted, scan_pc, poll_updates, played, saved, poll_file>>

\* Mutant of process_telegram_updates_fail: the error escapes and ends the
\* polling task.
process_telegram_updates_fail_Crash ==
    /\ poll_pc = "getUpdates"
    /\ poll_pc' = "crashed"
    /\ poll_failed' = TRUE
    /\ resp' = NoResp
    /\ nexts' = 0
    /\ UNCHANGED <<SONGS_DB, radio_state, user_favorites, now, next_uuid,
                   booted, scan_pc, poll_updates, played, saved, poll_file>>

\* getUpdates raised or answered not ok: logged, the loop sleeps and polls again.
process_telegram_updates_fail ==
    /\ poll_pc = "getUpdates"
    /\ poll_pc' = "sleep"
    /\ poll_failed' = TRUE
    /\ resp' = NoResp
    /\ nexts' = 0
    /\ UNCHANGED <<SONGS_DB, radio_state, user_favorites, now, next_uuid,
                   booted, scan_pc, poll_updates, played, saved, poll_file>>

\* getUpdates answered with updates: the loop runs to its first send.
process_telegram_updates_receive(B) ==
    /\ poll_pc = "getUpdates"
    /\ Len(played) <= B.ingest
    /\ \E us \in UpdateLists(B) :
         /\ next_uuid + AudioCount(us) <= B.tracks + 1
         /\ LET r == process_update(us, SONGS_DB, next_uuid)
            IN  /\ SONGS_DB' = r.db
                /\ next_uuid' = r.uuid
                /\ poll_pc' = r.pc
                /\ poll_updates' = r.rest
                /\ poll_failed' = r.failed
                /\ poll_file' = r.file_id
    /\ resp' = NoResp
    /\ nexts' = 0
    /\ UNCHANGED <<radio_state, user_favorites, now, booted, scan_pc, played,
                   saved>>

\* send_telegram_message returned (it swallows its own errors): after
\* "Added" and "cleared" the playlist is reloaded, then the loop runs on to
\* its next send or to its end.
process_telegram_updates_resume ==
    /\ poll_pc \in {"send_added", "send_cleared", "send_list"}
    /\ \E tracks \in Shuffles(SONGS_DB) :
         radio_state' =
             IF poll_pc \in {"send_added", "send_cleared"}
             THEN reload_playlist(radio_state, tracks, now)
             ELSE radio_state
    /\ LET r == process_update(poll_updates, SONGS_DB, next_uuid)
       IN  /\ SONGS_DB' = r.db
           /\ next_uuid' = r.uuid
           /\ poll_pc' = r.pc
           /\ poll_updates' = r.rest
           /\ poll_failed' = r.failed
           /\ poll_file' = r.file_id
    /\ resp' = NoResp
    /\ nexts' = 0
    /\ UNCHANGED <<user_favorites, now, booted, scan_pc, played, saved>>

\* ----------------------------------------------------------- API endpoints
\* time.time() - radio_state.started_at
Elapsed(rs, t) == t - rs.started_at

\* Mutant of TrackFinished: > for >=.
TrackFinished_Strict(rs, t) == Elapsed(rs, t) > rs.current_track.duration

\* current_pos >= radio_state.current_track.duration
TrackFinished(rs, t) == Elapsed(rs, t) >= rs.current_track.duration

\* The position calculation of GET /radio/state at time t, for a state with a
\* current track: the state it leaves, the position it reports and the
\* play_next_track calls it makes.
StatePosition(rs, t) ==
    IF rs.is_playing
    THEN IF TrackFinished(rs, t)
         THEN [rs |-> play_next_track(rs, t), position |-> 0, nexts |-> 1]
         ELSE [rs |-> rs, position |-> Elapsed(rs, t), nexts |-> 0]
    ELSE [rs |-> rs, position |-> rs.position, nexts |-> 0]

\* Mutant of UpNext: the slice starts after the head (playlist[1:4]).
UpNext_AfterHead(rs) ==
    IF Len(rs.playlist) >= UpNextCount
    THEN SubSeq(rs.playlist, 2, Min(Len(rs.playlist), UpNextCount + 1))
    ELSE rs.playlist

\* radio_state.playlist[:3] if len(radio_state.playlist) >= 3 else the playlist
UpNext(rs) ==
    IF Len(rs.playlist) >= UpNextCount
    THEN FirstN(rs.playlist, UpNextCount)
    ELSE rs.playlist

\* radio_state.history[-1] if radio_state.history else None
JustPlayed(rs) ==
    IF rs.history # <<>> THEN rs.history[Len(rs.history)] ELSE NoTrack

\* GET /api/radio/state
get_radio_state(B) ==
    /\ booted
    /\ Len(played) < B.plays
    /\ IF radio_state.current_track = NoTrack
       THEN /\ resp' = [NoResp EXCEPT !.op = "get_radio_state",
                                      !.status = 200,
                                      !.playlist_count =
                                          Cardinality(DOMAIN SONGS_DB)]
            /\ nexts' = 0
            /\ UNCHANGED <<radio_state, played>>
       ELSE LET r == StatePosition(radio_state, now)
            IN  /\ radio_state' = r.rs
                /\ nexts' = r.nexts
                /\ played' = IF r.nexts > 0
                             THEN PlayedAfter(radio_state, played)
                             ELSE played
                /\ resp' = [NoResp EXCEPT
                              !.op = "get_radio_state",
                              !.status = 200,
                              !.current_track = r.rs.current_track,
                              !.position = r.position,
                              !.is_playing = r.rs.is_playing,
                              !.started_at = r.rs.started_at,
                              !.playlist_count = Cardinality(DOMAIN SONGS_DB),
                              !.just_played = JustPlayed(r.rs),
                              !.up_next = UpNext(r.rs)]
    /\ UNCHANGED <<SONGS_DB, user_favorites, now, next_uuid, booted, scan_pc,
                   poll_pc, poll_updates, saved, poll_failed, poll_file>>

\* Mutant of skip_track: the skip waits for the current track to finish.
skip_track_IfFinished(B) ==
    LET due == \/ radio_state.current_track = NoTrack
               \/ TrackFinished(radio_state, now)
    IN  /\ booted
        /\ Len(played) < B.plays
        /\ radio_state' = IF due
                          THEN play_next_track(radio_state, now)
                          ELSE radio_state
        /\ played' = IF due THEN PlayedAfter(radio_state, played) ELSE played
        /\ nexts' = IF due THEN 1 ELSE 0
        /\ resp' = [NoResp EXCEPT !.op = "skip_track", !.status = 200]
        /\ UNCHANGED <<SONGS_DB, user_favorites, now, next_uuid, booted,
                       scan_pc, poll_pc, poll_updates, saved, poll_failed,
                       poll_file>>

\* POST /api/radio/next
skip_track(B) ==
    /\ booted
    /\ Len(played) < B.plays
    /\ radio_state' = play_next_track(radio_state, now)
    /\ played' = PlayedAfter(radio_state, played)
    /\ nexts' = 1
    /\ resp' = [NoResp EXCEPT !.op = "skip_track", !.status = 200]
    /\ UNCHANGED <<SONGS_DB, user_favorites, now, next_uuid, booted, scan_pc,
                   poll_pc, poll_updates, saved, poll_failed, poll_file>>

\* The position GET /radio/stream reports at time t.
StreamPosition(rs, t) == IF rs.is_playing THEN Elapsed(rs, t) ELSE rs.position

\* GET /api/radio/stream
get_stream_url ==
    /\ booted
    /\ resp' = IF radio_state.current_track = NoTrack
               THEN [NoResp EXCEPT !.op = "get_stream_url", !.status = 404]
               ELSE [NoResp EXCEPT
                       !.op = "get_stream_url",
                       !.status = 200,
                       !.current_track = radio_state.current_track,
                       !.position = StreamPosition(radio_state, now)]
    /\ nexts' = 0
    /\ UNCHANGED <<SONGS_DB, radio_state, user_favorites, now, next_uuid,
                   booted, scan_pc, poll_pc, poll_updates, played, saved,
                   poll_failed, poll_file>>

\* GET /api/radio/playlist
get_playlist ==
    /\ booted
    /\ resp' = [NoResp EXCEPT !.op = "get_playlist",
                              !.status = 200,
                              !.playlist = radio_state.playlist]
    /\ nexts' = 0
    /\ UNCHANGED <<SONGS_DB, radio_state, user_favorites, now, next_uuid,
                   booted, scan_pc, poll_pc, poll_updates, played, saved,
                   poll_failed, poll_file>>

\* ---------------------------------------------------------------- favorites
\* Mutant of StoreFavorite: a favorite already stored is kept.
StoreFavorite_KeepFirst(favs, track, t) ==
    IF "main" \in DOMAIN favs
    THEN favs
    ELSE [k \in {"main"} |-> UserFavorite(track, t)]

\* user_favorites["main"] = UserFavorite(track=..., saved_at=time.time())
StoreFavorite(favs, track, t) ==
    [k \in (DOMAIN favs) \cup {"main"} |->
        IF k = "main" THEN UserFavorite(track, t) ELSE favs[k]]

\* fav = user_favorites.get("main"); the track it holds, None when
\* `not fav or not fav.track`
FavoriteTrack(favs) ==
    IF "main" \in DOMAIN favs THEN favs["main"].track ELSE NoTrack

\* Mutant of save_favorite: the favorite is stored before the current track
\* is looked at.
save_favorite_NoCheck ==
    /\ booted
    /\ Len(saved) < MaxSaves
    /\ user_favorites' =
          StoreFavorite(user_favorites, radio_state.current_track, now)
    /\ saved' = Append(saved, radio_state.current_track)
    /\ resp' = IF radio_state.current_track = NoTrack
               THEN [NoResp EXCEPT !.op = "save_favorite", !.status = 404]
               ELSE [NoResp EXCEPT
                       !.op = "save_favorite",
                       !.status = 200,
                       !.current_track = radio_state.current_track]
    /\ nexts' = 0
    /\ UNCHANGED <<SONGS_DB, radio_state, now, next_uuid, booted, scan_pc,
                   poll_pc, poll_updates, played, poll_failed, poll_file>>

\* POST /api/favorites/save
save_favorite ==
    /\ booted
    /\ IF radio_state.current_track = NoTrack
       THEN /\ resp' = [NoResp EXCEPT !.op = "save_favorite", !.status = 404]
            /\ UNCHANGED <<user_favorites, saved>>
       ELSE /\ Len(saved) < MaxSaves
            /\ user_favorites' =
                  StoreFavorite(user_favorites, radio_state.current_track, now)
            /\ saved' = Append(saved, radio_state.current_track)
            /\ resp' = [NoResp EXCEPT
                          !.op = "save_favorite",
                          !.status = 200,
                          !.current_track = radio_state.current_track]
    /\ nexts' = 0
    /\ UNCHANGED <<SONGS_DB, radio_state, now, next_uuid, booted, scan_pc,
                   poll_pc, poll_updates, played, poll_failed, poll_file>>

\* GET /api/favorites/get
get_favorite ==
    /\ booted
    /\ resp' = [NoResp EXCEPT !.op = "get_favorite",
                              !.status = 200,
                              !.favorite = FavoriteTrack(user_favorites)]
    /\ nexts' = 0
    /\ UNCHANGED <<SONGS_DB, radio_state, user_favorites, now, next_uuid,
                   booted, scan_pc, poll_pc, poll_updates, played, saved,
                   poll_failed, poll_file>>

\* GET /api/favorites/stream
get_favorite_stream ==
    /\ booted
    /\ resp' = IF FavoriteTrack(user_favorites) = NoTrack
               THEN [NoResp EXCEPT !.op = "get_favorite_stream",
                                   !.status = 404]
               ELSE [NoResp EXCEPT
                       !.op = "get_favorite_stream",
                       !.status = 200,
                       !.favorite = FavoriteTrack(user_favorites)]
    /\ nexts' = 0
    /\ UNCHANGED <<SONGS_DB, radio_state, user_favorites, now, next_uuid,
                   booted, scan_pc, poll_pc, poll_updates, played, saved,
                   poll_failed, poll_file>>

\* -------------------------------------------------------------------- share
\* GET /api/share/current
get_share_data ==
    /\ booted
    /\ resp' = IF radio_state.current_track = NoTrack
               THEN [NoResp EXCEPT !.op = "get_share_data", !.status = 404]
               ELSE [NoResp EXCEPT
                       !.op = "get_share_data",
                       !.status = 200,
                       !.current_track = radio_state.current_track]
    /\ nexts' = 0
    /\ UNCHANGED <<SONGS_DB, radio_state, user_favorites, now, next_uuid,
                   booted, scan_pc, poll_pc, poll_updates, played, saved,
                   poll_failed, poll_file>>

\* ------------------------------------------------------------ specification
Next ==
    \/ Tick
    \/ startup
    \/ manual_rescan
    \/ scan_telegram_history_fail
    \/ scan_telegram_history_done(Bounds)
    \/ telegram_polling_loop
    \/ process_telegram_updates_fail
    \/ process_telegram_updates_receive(Bounds)
    \/ process_telegram_updates_resume
    \/ get_radio_state(Bounds)
    \/ skip_track(Bounds)
    \/ get_stream_url

Spec == Init /\ [][Next]_vars

\* Runs with the clock standing still: the startup scan, the poller, forced
\* skips and state polls.
NextStill(B) ==
    \/ startup
    \/ scan_telegram_history_fail
    \/ scan_telegram_history_done(B)
    \/ telegram_polling_loop
    \/ process_telegram_updates_fail
    \/ process_telegram_updates_receive(B)
    \/ process_telegram_updates_resume
    \/ get_radio_state(B)
    \/ skip_track(B)

\* Long runs, past the capacity of the history.
SpecHistory == Init /\ [][NextStill(HistoryBounds)]_vars

\* Short runs over three files.
SpecScenario == Init /\ [][NextStill(ScenarioBounds)]_vars

\* The favorite: saves and reads between ingestion, skips and clock ticks.
NextFavorites ==
    \/ Tick
    \/ startup
    \/ scan_telegram_history_fail
    \/ scan_telegram_history_done(FavoritesBounds)
    \/ telegram_polling_loop
    \/ process_telegram_updates_fail
    \/ process_telegram_updates_receive(FavoritesBounds)
    \/ process_telegram_updates_resume
    \/ skip_track(FavoritesBounds)
    \/ save_favorite
    \/ get_favorite

SpecFavorites == Init /\ [][NextFavorites]_vars

\* Every request that answers 404 when idle or without a favorite, and the
\* playlist listing, between ingestion, rescans and skips, the clock
\* standing still.
NextRequests ==
    \/ NextStill(FavoritesBounds)
    \/ manual_rescan
    \/ get_playlist
    \/ get_stream_url
    \/ get_share_data
    \/ save_favorite
    \/ get_favorite
    \/ get_favorite_stream

SpecRequests == Init /\ [][NextRequests]_vars

\* Playlists of up to four tracks.
SpecLookahead == Init /\ [][NextStill(LookaheadBounds)]_vars

\* The poller under the fairness of the event loop: asyncio.sleep(2) returns,
\* so a poller that sleeps starts its next poll.
SpecPoller ==
    Init /\ [][NextStill(PollerBounds)]_vars /\ WF_vars(telegram_polling_loop)

\* ================================================================== claims
Last(q) == q[Len(q)]

\* rs after n forced advances at time t
RECURSIVE Advanced(_, _, _)
Advanced(rs, n, t) ==
    IF n = 0 THEN rs ELSE Advanced(play_next_track(rs, t), n - 1, t)

\* C1: a GET state with a current track: while elapsed < duration nothing
\* advances and the position reported is the elapsed time; once
\* elapsed >= duration exactly one play_next_track step is taken, however
\* long the track is overdue (the head of the playlist becomes current, goes
\* to the tail, one track enters history, the clock restarts now; on an empty
\* playlist the step changes nothing), and the position reported is 0.
C1_PollAdvancesOnce ==
    [][(get_radio_state(Bounds) /\ radio_state.current_track # NoTrack) =>
        IF now - radio_state.started_at < radio_state.current_track.duration
        THEN /\ radio_state' = radio_state
             /\ nexts' = 0
             /\ resp'.position = now - radio_state.started_at
        ELSE /\ nexts' = 1
             /\ resp'.position = 0
             /\ IF radio_state.playlist = <<>>
                THEN radio_state' = radio_state
                ELSE /\ radio_state'.current_track = Head(radio_state.playlist)
                     /\ radio_state'.playlist =
                            Append(Tail(radio_state.playlist),
                                   Head(radio_state.playlist))
                     /\ radio_state'.history =
                            IF Len(radio_state.history) < HistoryCapacity
                            THEN Append(radio_state.history,
                                        radio_state.current_track)
                            ELSE Append(Tail(radio_state.history),
                                        radio_state.current_track)
                     /\ radio_state'.started_at = now
                     /\ radio_state'.position = 0]_vars

\* C1 witness: a poll found a track of positive duration finished, long
\* overdue, and advanced past it.
C1_Witness ==
    /\ resp.op = "get_radio_state"
    /\ nexts = 1
    /\ resp.position = 0
    /\ resp.just_played # NoTrack
    /\ resp.just_played.duration > 0
    /\ now > resp.just_played.duration
    /\ resp.started_at = now

\* C2: of two GET state calls served one right after the other at the same
\* instant, the second leaves the radio state unchanged (whatever the
\* durations of the tracks, 0 included).
C2_Claim ==
    [][(get_radio_state(Bounds) /\ resp.op = "get_radio_state") =>
        radio_state' = radio_state]_vars

\* C3 as claimed: from any state with a current track and a playlist of K
\* tracks, K advances bring back the current track and the playlist order,
\* and fewer than K advances leave another track current.
C3_Claim ==
    LET K == Len(radio_state.playlist)
    IN  (radio_state.current_track # NoTrack /\ K >= 1) =>
            /\ Advanced(radio_state, K, now).current_track =
                   radio_state.current_track
            /\ Advanced(radio_state, K, now).playlist = radio_state.playlist
            /\ \A n \in 1..(K - 1) :
                   Advanced(radio_state, n, now).current_track #
                       radio_state.current_track

\* C3 amended: the same, from the states in which the current track is the
\* last entry of the playlist (where every advance leaves it).
C3_RoundRobin ==
    LET K == Len(radio_state.playlist)
    IN  (/\ radio_state.current_track # NoTrack
         /\ K >= 1
         /\ radio_state.playlist[K] = radio_state.current_track) =>
            /\ Advanced(radio_state, K, now).current_track =
                   radio_state.current_track
            /\ Advanced(radio_state, K, now).playlist = radio_state.playlist
            /\ \A n \in 1..(K - 1) :
                   Advanced(radio_state, n, now).current_track #
                       radio_state.current_track

\* C3 witness: a run went once around a playlist of two or more tracks: the
\* current track, last in the playlist, is the one that entered history K
\* advances ago.
C3_Witness ==
    LET K == Len(radio_state.playlist)
    IN  /\ K >= 2
        /\ radio_state.playlist[K] = radio_state.current_track
        /\ Len(played) >= K
        /\ played[Len(played) - K + 1] = radio_state.current_track
        /\ resp.op = "skip_track"

\* C4: every state-reading request (GET state, GET stream) served when the
\* current track (of a duration > 0) has finished advances the rotation: the
\* head of the playlist becomes current, the clock restarts and the position
\* reported is 0, below the duration.
C4_Claim ==
    [][((get_radio_state(Bounds) \/ get_stream_url)
        /\ radio_state.current_track # NoTrack
        /\ radio_state.current_track.duration > 0
        /\ radio_state.playlist # <<>>
        /\ TrackFinished(radio_state, now)) =>
            /\ radio_state'.current_track = Head(radio_state.playlist)
            /\ radio_state'.started_at = now
            /\ resp'.position = 0]_vars

\* C5: history never holds more than the capacity, and it is exactly the most
\* recent tracks moved to it, in the order they were played.
C5_HistoryBound ==
    /\ Len(radio_state.history) <= HistoryCapacity
    /\ radio_state.history =
           LastN(played, Min(Len(played), HistoryCapacity))

\* C5 witness: more tracks were played than the history holds.
C5_Witness ==
    /\ Len(played) > HistoryCapacity
    /\ Len(radio_state.history) = HistoryCapacity
    /\ radio_state.history[1] # radio_state.history[2]

\* C6: track 1 current in a playlist of three, three forced advances: track 1
\* is current again and history is exactly <<track 3, track 2>>.
C6_Claim ==
    (/\ Len(radio_state.playlist) = 3
     /\ Len(played) = 3
     /\ radio_state.current_track = played[1]
     /\ radio_state.playlist = <<played[2], played[3], played[1]>>) =>
        radio_state.history = <<played[3], played[2]>>

\* C7: the store holds one favorite, under "main": the track that was current
\* at the last successful save; GET favorites/get returns that track.
C7_FavoriteOverwrite ==
    /\ saved # <<>> =>
          /\ DOMAIN user_favorites = {"main"}
          /\ user_favorites["main"].track = Last(saved)
    /\ (resp.op = "get_favorite" /\ saved # <<>>) =>
          resp.favorite = Last(saved)

\* C7 witness: two saves with different current tracks, then a get.
C7_Witness ==
    /\ Len(saved) = 2
    /\ saved[1] # saved[2]
    /\ resp.op = "get_favorite"
    /\ resp.favorite = saved[2]

\* C8: whenever the playlist is empty, GET state answers the idle snapshot:
\* current_track null.
C8_Claim ==
    (resp.op = "get_radio_state" /\ radio_state.playlist = <<>>) =>
        (resp.status = 200 /\ resp.current_track = NoTrack)

\* C9: play_next_track on an empty playlist, from POST next or from a GET
\* state that found the track finished, answers 200 and changes nothing of
\* the radio state.
C9_EmptyAdvanceNoOp ==
    [][((get_radio_state(Bounds) \/ skip_track(Bounds))
        /\ radio_state.playlist = <<>>) =>
            (radio_state' = radio_state /\ resp'.status = 200)]_vars

\* C9 witness: a GET state found the current track finished while the
\* playlist was empty, and called play_next_track.
C9_Witness ==
    /\ resp.op = "get_radio_state"
    /\ nexts = 1
    /\ radio_state.playlist = <<>>
    /\ radio_state.current_track # NoTrack

\* C10: after a GET state that advanced past a finished track of duration
\* > 0, a further GET state served at the same instant does not advance again.
C10_Claim ==
    [][(/\ get_radio_state(Bounds)
        /\ resp.op = "get_radio_state"
        /\ nexts = 1
        /\ resp.just_played # NoTrack
        /\ resp.just_played.duration > 0
        /\ radio_state.playlist # <<>>) =>
            (nexts' = 0 /\ radio_state' = radio_state)]_vars

\* C11: the poller's reload after a newly received audio file (every playlist
\* entry still in SONGS_DB, which holds one track more), while a track is
\* playing, puts the new track at the tail of the playlist: the entries there
\* were keep their places, and the current track, started_at and history are
\* unchanged.
C11_Claim ==
    [][(/\ process_telegram_updates_resume
        /\ poll_pc = "send_added"
        /\ radio_state.current_track # NoTrack
        /\ Range(radio_state.playlist) \subseteq Range(SONGS_DB)
        /\ Cardinality(DOMAIN SONGS_DB) = Len(radio_state.playlist) + 1) =>
            /\ Len(radio_state'.playlist) = Len(radio_state.playlist) + 1
            /\ FirstN(radio_state'.playlist, Len(radio_state.playlist)) =
                   radio_state.playlist
            /\ radio_state'.current_track = radio_state.current_track
            /\ radio_state'.started_at = radio_state.started_at
            /\ radio_state'.history = radio_state.history]_vars

\* C12: a poll that ends in an error (getUpdates raised or answered not ok,
\* an update raised while it was processed) leaves the poller asleep in its
\* loop, adds nothing to history and does not replace the current track (an
\* "Added" confirmed before the error still starts playback on an idle
\* radio); and after every failed poll the loop polls again.
C12_PollerResilience ==
    /\ [][(~poll_failed /\ poll_failed') =>
            /\ poll_pc' = "sleep"
            /\ radio_state'.history = radio_state.history
            /\ poll_pc = "getUpdates" => radio_state' = radio_state
            /\ \/ radio_state'.current_track = radio_state.current_track
               \/ /\ radio_state.current_track = NoTrack
                  /\ poll_pc = "send_added"]_vars
    /\ poll_failed ~> (poll_pc = "getUpdates")

\* C12 witness: a poll failed while a track was playing and another was in
\* history.
C12_Witness ==
    /\ poll_pc = "sleep"
    /\ poll_failed
    /\ radio_state.current_track # NoTrack
    /\ radio_state.history # <<>>

\* C13: POST next on a non-empty playlist advances exactly once, whatever the
\* elapsed time: the head of the playlist becomes current (and goes to the
\* tail), the clock restarts, and the track that was current is appended to
\* history.
C13_ForcedSkip ==
    [][(skip_track(Bounds) /\ radio_state.playlist # <<>>) =>
        /\ nexts' = 1
        /\ resp'.status = 200
        /\ radio_state'.current_track = Head(radio_state.playlist)
        /\ radio_state'.playlist =
               Append(Tail(radio_state.playlist), Head(radio_state.playlist))
        /\ radio_state'.started_at = now
        /\ radio_state'.position = 0
        /\ radio_state.current_track # NoTrack =>
               /\ radio_state'.history # <<>>
               /\ Last(radio_state'.history) = radio_state.current_track
               /\ Len(radio_state.history) < HistoryCapacity =>
                      radio_state'.history =
                          Append(radio_state.history,
                                 radio_state.current_track)]_vars

\* C13 witness: a skip moved a track to history before its duration had
\* elapsed (the track is longer than the radio has been up).
C13_Witness ==
    /\ resp.op = "skip_track"
    /\ nexts = 1
    /\ radio_state.history # <<>>
    /\ Last(radio_state.history).duration > now
    /\ Last(radio_state.history) = Last(played)
    /\ radio_state.started_at = now

\* C14: with no current track, GET stream, POST favorites/save and
\* GET share/current answer 404 and change neither the radio state nor the
\* stored favorite.
C14_NotPlaying404 ==
    [][((get_stream_url \/ save_favorite \/ get_share_data)
        /\ radio_state.current_track = NoTrack) =>
            /\ resp'.status = 404
            /\ radio_state' = radio_state
            /\ user_favorites' = user_favorites
            /\ SONGS_DB' = SONGS_DB]_vars

\* C14 witness: a save was refused on an idle radio.
C14_Witness ==
    /\ resp.op = "save_favorite"
    /\ resp.status = 404
    /\ radio_state.current_track = NoTrack
    /\ user_favorites = <<>>

\* C15: GET favorites/get and GET favorites/stream answer 404 while no
\* favorite was ever saved, and the stored track once one was.
C15_Claim ==
    resp.op \in {"get_favorite", "get_favorite_stream"} =>
        IF saved = <<>>
        THEN resp.status = 404
        ELSE resp.status = 200 /\ resp.favorite = Last(saved)

\* C16: once there is a current track there is one for ever: no step (GET
\* state, POST next, ingestion, /clear, rescan) puts current_track back to
\* null.
C16_CurrentNeverCleared ==
    [][radio_state.current_track # NoTrack =>
           radio_state'.current_track # NoTrack]_vars

\* C16 witness: /clear emptied SONGS_DB and the playlist of a radio that had
\* played, and a track is still current.
C16_Witness ==
    /\ radio_state.current_track # NoTrack
    /\ radio_state.playlist = <<>>
    /\ SONGS_DB = <<>>
    /\ radio_state.history # <<>>

\* C17: the up_next of a GET state holds min(3, len(playlist)) tracks: in
\* order, the tracks the next advances would make current; and apart from the
\* advance past a finished track the request leaves the radio state as it was.
C17_UpNextLookahead ==
    [][get_radio_state(LookaheadBounds) =>
        /\ Len(resp'.up_next) =
               Min(UpNextCount, Len(radio_state'.playlist))
        /\ \A i \in 1..Len(resp'.up_next) :
               resp'.up_next[i] =
                   Advanced(radio_state', i, now).current_track
        /\ nexts' = 0 => radio_state' = radio_state
        /\ nexts' = 1 => radio_state' = play_next_track(radio_state, now)]_vars

\* C17 witness: a GET state listed three of the four tracks of the playlist.
C17_Witness ==
    /\ resp.op = "get_radio_state"
    /\ Len(radio_state.playlist) = 4
    /\ resp.up_next = FirstN(radio_state.playlist, 3)
    /\ resp.up_next[1] # radio_state.current_track

\* C18: an advance on a non-empty playlist (a forced skip, a GET state that
\* found the track finished, the start of playback by a reload): the track
\* that was current, if any, becomes the newest history entry, and the
\* just_played of the advancing GET state; the former head of the playlist
\* is current; started_at is the time of the advance, position 0,
\* is_playing true.
C18_AdvanceEffect ==
    [][(/\ \/ skip_track(Bounds)
           \/ get_radio_state(Bounds) /\ nexts' = 1
           \/ /\ radio_state.current_track = NoTrack
              /\ radio_state'.current_track # NoTrack
        /\ radio_state'.playlist # <<>>) =>
            /\ radio_state'.current_track = Last(radio_state'.playlist)
            /\ radio_state.playlist # <<>> =>
                   radio_state'.current_track = Head(radio_state.playlist)
            /\ radio_state'.started_at = now
            /\ radio_state'.position = 0
            /\ radio_state'.is_playing
            /\ IF radio_state.current_track = NoTrack
               THEN radio_state'.history = radio_state.history
               ELSE /\ Last(radio_state'.history) = radio_state.current_track
                    /\ Len(radio_state.history) < HistoryCapacity =>
                           radio_state'.history =
                               Append(radio_state.history,
                                      radio_state.current_track)
            /\ resp'.op = "get_radio_state" =>
                   /\ resp'.just_played = radio_state.current_track
                   /\ resp'.current_track = radio_state'.current_track
                   /\ resp'.position = 0
                   /\ resp'.is_playing
                   /\ resp'.started_at = now]_vars

\* C18 witness: a GET state advanced a radio that had already played a track:
\* it reports the track it retired as just_played, another one as current.
C18_Witness ==
    /\ resp.op = "get_radio_state"
    /\ nexts = 1
    /\ Len(radio_state.history) = 2
    /\ resp.just_played = radio_state.history[2]
    /\ resp.just_played # radio_state.history[1]
    /\ resp.current_track # resp.just_played
    /\ resp.position = 0
    /\ resp.is_playing

\* C19: playback starts in the step that ingests the first track: no GET
\* state is answered "nothing playing" by a radio that holds an ingested
\* track (playlist_count > 0).
C19_Claim ==
    (resp.op = "get_radio_state" /\ resp.playlist_count > 0) =>
        resp.current_track # NoTrack

\* C20: an advance rotates the playlist by one place: same length, same
\* tracks, and the track now current is its last entry; and no playlist ever
\* holds two tracks with the same file_id.
C20_AdvanceRotates ==
    /\ [](\A i, j \in 1..Len(radio_state.playlist) :
             radio_state.playlist[i].file_id =
                 radio_state.playlist[j].file_id => i = j)
    /\ [][(skip_track(ScenarioBounds)
            \/ (get_radio_state(ScenarioBounds) /\ nexts' = 1)) =>
            /\ Len(radio_state'.playlist) = Len(radio_state.playlist)
            /\ Range(radio_state'.playlist) = Range(radio_state.playlist)
            /\ radio_state.playlist # <<>> =>
                   /\ radio_state'.current_track =
                          Last(radio_state'.playlist)
                   /\ radio_state'.playlist =
                          Append(Tail(radio_state.playlist),
                                 Head(radio_state.playlist))]_vars

\* C20 witness: two advances over a playlist of three tracks: the current
\* track is the last entry, the one retired last the entry before it.
C20_Witness ==
    /\ resp.op \in {"skip_track", "get_radio_state"}
    /\ nexts = 1
    /\ Len(radio_state.playlist) = 3
    /\ radio_state.current_track = radio_state.playlist[3]
    /\ Len(played) >= 2
    /\ Last(played) = radio_state.playlist[2]

\* C21: whenever there is a current track, the playlist holds a track with
\* its file_id, and so does the list GET playlist returns.
C21_Claim ==
    radio_state.current_track # NoTrack =>
        /\ \E i \in 1..Len(radio_state.playlist) :
               radio_state.playlist[i].file_id =
                   radio_state.current_track.file_id
        /\ resp.op = "get_playlist" =>
               \E i \in 1..Len(resp.playlist) :
                   resp.playlist[i].file_id =
                       radio_state.current_track.file_id

\* C22: with two or more tracks in the playlist, an advance (forced skip or
\* advancing GET state) never makes current a track with the file_id of the
\* track (of a duration > 0) it retires, and the up_next of a GET state never
\* starts with the current track, also when reloads happened between the
\* advances.
C22_Claim ==
    /\ []((resp.op = "get_radio_state" /\ Len(radio_state.playlist) >= 2) =>
              resp.up_next[1].file_id # resp.current_track.file_id)
    /\ [][((skip_track(Bounds) \/ (get_radio_state(Bounds) /\ nexts' = 1))
            /\ radio_state.current_track # NoTrack
            /\ radio_state.current_track.duration > 0
            /\ Len(radio_state.playlist) >= 2) =>
               radio_state'.current_track.file_id #
                   radio_state.current_track.file_id]_vars

\* C23: in every state a request can observe, SONGS_DB and the playlist hold
\* the same file_ids: the playlist_count of GET state is the length of the
\* playlist, and the list of GET playlist has as many entries as SONGS_DB.
C23_Claim ==
    /\ DOMAIN SONGS_DB =
           {radio_state.playlist[i].file_id :
               i \in 1..Len(radio_state.playlist)}
    /\ resp.op = "get_radio_state" =>
           resp.playlist_count = Len(radio_state.playlist)
    /\ resp.op = "get_playlist" =>
           Len(resp.playlist) = Cardinality(DOMAIN SONGS_DB)

\* C24: a song the poller has stored is not lost to a rescan running at the
\* same time: while the poller waits for its confirmation to be sent the song
\* is in SONGS_DB, and the reload that follows puts it in the playlist.
C24_Claim ==
    /\ [](poll_file # 0 => poll_file \in DOMAIN SONGS_DB)
    /\ [][(process_telegram_updates_resume /\ poll_file # 0) =>
            \E i \in 1..Len(radio_state'.playlist) :
                radio_state'.playlist[i].file_id = poll_file]_vars

====
